---- MODULE Spec2Model ----
(***************************************************************************)
(* Model of onelogin_aws_cli/configuration.py: ConfigurationFile (a        *)
(* configparser.ConfigParser with default_section='defaults') and Section. *)
(*                                                                         *)
(* Text values are sequences of one-character strings, so that the         *)
(* conversions of the parser (strip, lower, BasicInterpolation) are        *)
(* computed on the characters.  An ordered dict is a sequence of           *)
(* <<key, value>> pairs; _sections is a sequence of [name, opts] records.  *)
(* A file is a sequence of lines, each a [name] header or an option line.  *)
(* The alphabet of the modelled texts has no "(" and no newline, so the    *)
(* %(name)s branch of the interpolation and multi-line values are outside  *)
(* the model.  initialise(), which prompts for five keys, sets them         *)
(* through a Section and calls save(), is the composition of SectionCall,  *)
(* SetItem and Save and has no action of its own.                          *)
(***************************************************************************)
EXTENDS Integers, Sequences, FiniteSets, TLC

VARIABLES
    default_section,  \* ConfigParser.default_section
    _defaults,        \* ConfigParser._defaults, the dict behind defaults()
    _sections,        \* ConfigParser._sections
    file,             \* the config_file given to the constructor
    loaded,           \* load() has returned
    view,             \* the Section object the caller holds
    last,             \* the last call: its arguments and what it returned
    written,          \* what save() wrote
    stdout,           \* the kinds of lines printed so far
    sp_assigned,      \* history: save_password was assigned by a file or by Set
    steps             \* number of state-changing calls made

vars == <<default_section, _defaults, _sections, file, loaded, view, last,
          written, stdout, sp_assigned, steps>>

\* Bound on the number of state-changing calls made after construction.
MaxSteps == 3

-----------------------------------------------------------------------------
\* Texts

T_False == <<"F", "a", "l", "s", "e">>
T_false == <<"f", "a", "l", "s", "e">>
T_true == <<"t", "r", "u", "e">>
T_bar == <<"b", "a", "r">>
T_bar_padded == <<" ", "b", "a", "r", " ">>
T_one == <<"1">>
T_pct == <<"%">>
T_pctpct == <<"%", "%">>

\* A line of a file: a [name] header or a "name = text" option line
SecLine(n) == [kind |-> "sec", name |-> n, text |-> <<>>]

OptLine(k, t) == [kind |-> "opt", name |-> k, text |-> t]

NoFile == [given |-> FALSE, lines |-> <<>>]

NoView == [bound |-> FALSE, section_name |-> "", _overrides |-> <<>>]

NotWritten == [done |-> FALSE, lines |-> <<>>]

\* Python's True and False, as results that no text equals
PyTrue == <<"True">>
PyFalse == <<"False">>

\* Exceptions, as results that no text equals
NoSectionError == <<"NoSectionError">>
NoOptionError == <<"NoOptionError">>
InterpolationSyntaxError == <<"InterpolationSyntaxError">>
ValueError == <<"ValueError">>
DuplicateSectionError == <<"DuplicateSectionError">>
DuplicateOptionError == <<"DuplicateOptionError">>
MissingSectionHeaderError == <<"MissingSectionHeaderError">>
Errors == {NoSectionError, NoOptionError, InterpolationSyntaxError, ValueError,
           DuplicateSectionError, DuplicateOptionError, MissingSectionHeaderError}

\* str.lower() on the characters of the modelled alphabet
LowerChar(c) == IF c = "F" THEN "f" ELSE c

Lower(t) == [i \in 1..Len(t) |-> LowerChar(t[i])]

RECURSIVE LStrip(_)
LStrip(t) == IF t # <<>> /\ Head(t) = " " THEN LStrip(Tail(t)) ELSE t

RECURSIVE RStrip(_)
RStrip(t) == IF t # <<>> /\ t[Len(t)] = " " THEN RStrip(SubSeq(t, 1, Len(t) - 1)) ELSE t

Strip(t) == RStrip(LStrip(t))

\* optionxform: option names are lower-cased (keys are strings here)
optionxform(k) == IF k = "Foo" THEN "foo" ELSE k

\* BasicInterpolation.before_set: value.replace('%%', '') must leave no '%'
RECURSIVE RemovePctPct(_)
RemovePctPct(t) ==
    IF Len(t) >= 2 /\ t[1] = "%" /\ t[2] = "%" THEN RemovePctPct(SubSeq(t, 3, Len(t)))
    ELSE IF t = <<>> THEN <<>>
    ELSE <<Head(t)>> \o RemovePctPct(Tail(t))

before_set_ok(value) == \A i \in 1..Len(RemovePctPct(value)) : RemovePctPct(value)[i] # "%"

\* BasicInterpolation.before_get / _interpolate_some: '%%' reads as '%', a '%'
\* followed by anything else raises InterpolationSyntaxError
RECURSIVE before_get(_)
before_get(rest) ==
    IF rest = <<>> THEN <<>>
    ELSE IF Head(rest) # "%" THEN
        LET r == before_get(Tail(rest)) IN
        IF r = InterpolationSyntaxError THEN r ELSE <<Head(rest)>> \o r
    ELSE IF Len(rest) >= 2 /\ rest[2] = "%" THEN
        LET r == before_get(SubSeq(rest, 3, Len(rest))) IN
        IF r = InterpolationSyntaxError THEN r ELSE <<"%">> \o r
    ELSE InterpolationSyntaxError

\* RawConfigParser.BOOLEAN_STATES
BooleanTrue == {<<"1">>, <<"y", "e", "s">>, T_true, <<"o", "n">>}
BooleanFalse == {<<"0">>, <<"n", "o">>, T_false, <<"o", "f", "f">>}

-----------------------------------------------------------------------------
\* Ordered dicts

DictKeys(d) == {d[i][1] : i \in 1..Len(d)}

DictHas(d, k) == k \in DictKeys(d)

DictGet(d, k) == d[CHOOSE i \in 1..Len(d) : d[i][1] = k][2]

\* d[k] = v: an existing key keeps its position, a new key is appended
DictSet(d, k, v) ==
    IF DictHas(d, k) THEN [i \in 1..Len(d) |-> IF d[i][1] = k THEN <<k, v>> ELSE d[i]]
    ELSE Append(d, <<k, v>>)

SectionNames(secs) == {secs[i].name : i \in 1..Len(secs)}

SectionIndex(secs, n) == CHOOSE i \in 1..Len(secs) : secs[i].name = n

SectionOpts(secs, n) == secs[SectionIndex(secs, n)].opts

SectionPut(secs, n, d) ==
    [i \in 1..Len(secs) |-> IF secs[i].name = n THEN [name |-> n, opts |-> d] ELSE secs[i]]

-----------------------------------------------------------------------------
\* configparser.RawConfigParser, on (default_section, _defaults, _sections)

has_section(secs, section) == section \in SectionNames(secs)

\* RawConfigParser.set, after ConfigParser.set has validated the types
\* (every modelled option and value is a str): the new (_defaults, _sections),
\* or the exception
cp_set(ds, defs, secs, section, option, value) ==
    IF value # <<>> /\ ~before_set_ok(value)
    THEN [err |-> ValueError, defs |-> defs, secs |-> secs]
    ELSE IF section = "" \/ section = ds
    THEN [err |-> <<>>, defs |-> DictSet(defs, optionxform(option), value), secs |-> secs]
    ELSE IF ~has_section(secs, section)
    THEN [err |-> NoSectionError, defs |-> defs, secs |-> secs]
    ELSE [err |-> <<>>, defs |-> defs,
          secs |-> SectionPut(secs, section,
                              DictSet(SectionOpts(secs, section), optionxform(option), value))]

\* RawConfigParser.get(section, option, raw=True): _unify_values chains the
\* section's own dict (when it is in _sections) before _defaults
get_raw(ds, defs, secs, section, option) ==
    IF ~has_section(secs, section) /\ section # ds THEN NoSectionError
    ELSE LET sectiondict == IF has_section(secs, section) THEN SectionOpts(secs, section) ELSE <<>>
             o == optionxform(option)
         IN  IF DictHas(sectiondict, o) THEN DictGet(sectiondict, o)
             ELSE IF DictHas(defs, o) THEN DictGet(defs, o)
             ELSE NoOptionError

\* RawConfigParser.get(section, option): the raw value through before_get
cp_get(ds, defs, secs, section, option) ==
    LET value == get_raw(ds, defs, secs, section, option) IN
    IF value \in Errors THEN value ELSE before_get(value)

\* RawConfigParser.getboolean: _convert_to_boolean(get(section, option))
getboolean(ds, defs, secs, section, option) ==
    LET value == cp_get(ds, defs, secs, section, option) IN
    IF value \in Errors THEN value
    ELSE IF Lower(value) \in BooleanTrue THEN PyTrue
    ELSE IF Lower(value) \in BooleanFalse THEN PyFalse
    ELSE ValueError

\* RawConfigParser.has_option
has_option(ds, defs, secs, section, option) ==
    IF section = "" \/ section = ds THEN DictHas(defs, optionxform(option))
    ELSE IF ~has_section(secs, section) THEN FALSE
    ELSE \/ DictHas(SectionOpts(secs, section), optionxform(option))
         \/ DictHas(defs, optionxform(option))

\* RawConfigParser.options(section): the section's own keys and the defaults';
\* defaults() for the default section when _sections holds no section of
\* that name
options(ds, defs, secs, section) ==
    IF has_section(secs, section) THEN DictKeys(SectionOpts(secs, section)) \cup DictKeys(defs)
    ELSE IF section = ds THEN DictKeys(defs)
    ELSE {}

\* RawConfigParser.sections()
sections(secs) == [i \in 1..Len(secs) |-> secs[i].name]

\* RawConfigParser._read with strict=True, one line at a time.  st is
\* [err, defs, secs, cur, added_s, added_o]; cur is the name in the last header.
read_line(ds, st, line) ==
    IF st.err # <<>> THEN st
    ELSE IF line.kind = "sec" THEN
        IF has_section(st.secs, line.name) THEN
            IF line.name \in st.added_s THEN [st EXCEPT !.err = DuplicateSectionError]
            ELSE [st EXCEPT !.cur = line.name, !.added_s = @ \cup {line.name}]
        ELSE IF line.name = ds THEN [st EXCEPT !.cur = line.name]
        ELSE [st EXCEPT !.cur = line.name, !.added_s = @ \cup {line.name},
                        !.secs = Append(@, [name |-> line.name, opts |-> <<>>])]
    ELSE IF st.cur = "" THEN [st EXCEPT !.err = MissingSectionHeaderError]
    ELSE LET optname == optionxform(line.name)
             optval == Strip(line.text)
         IN  IF <<st.cur, optname>> \in st.added_o THEN [st EXCEPT !.err = DuplicateOptionError]
             ELSE IF has_section(st.secs, st.cur)
             THEN [st EXCEPT !.added_o = @ \cup {<<st.cur, optname>>},
                             !.secs = SectionPut(@, st.cur,
                                          DictSet(SectionOpts(@, st.cur), optname, optval))]
             ELSE [st EXCEPT !.added_o = @ \cup {<<st.cur, optname>>},
                             !.defs = DictSet(@, optname, optval)]

RECURSIVE read_lines(_, _, _)
read_lines(ds, st, lines) ==
    IF lines = <<>> THEN st
    ELSE read_lines(ds, read_line(ds, st, Head(lines)), Tail(lines))

read_file(ds, defs, secs, lines) ==
    read_lines(ds, [err |-> <<>>, defs |-> defs, secs |-> secs, cur |-> "",
                    added_s |-> {}, added_o |-> {}], lines)

\* RawConfigParser._write_section
write_section(name, d) ==
    <<SecLine(name)>> \o [i \in 1..Len(d) |-> OptLine(d[i][1], d[i][2])]

RECURSIVE write_sections(_)
write_sections(secs) ==
    IF secs = <<>> THEN <<>>
    ELSE write_section(Head(secs).name, Head(secs).opts) \o write_sections(Tail(secs))

\* RawConfigParser.write
write(ds, defs, secs) ==
    (IF defs # <<>> THEN write_section(ds, defs) ELSE <<>>) \o write_sections(secs)

-----------------------------------------------------------------------------
\* ConfigurationFile

\* DEFAULTS = dict(save_password=False); read_dict stores str(False)
DEFAULTS == << <<"save_password", T_False>> >>

\* The files a store is constructed from
File_legacy == <<SecLine("default"), OptLine("foo", T_bar)>>
File_legacy_sp == <<SecLine("default"), OptLine("foo", T_bar), OptLine("save_password", T_false)>>
File_legacy_pct == <<SecLine("default"), OptLine("foo", T_pctpct)>>
File_defaults == <<SecLine("defaults"), OptLine("Foo", T_bar_padded),
                   SecLine("prod"), OptLine("foo", T_true)>>
File_both == <<SecLine("defaults"), OptLine("foo", T_bar), SecLine("default"), OptLine("foo", T_true)>>
File_empty == <<>>
File_dup == <<SecLine("prod"), OptLine("foo", T_bar), OptLine("Foo", T_true)>>

Files == {File_legacy, File_legacy_sp, File_legacy_pct, File_defaults, File_both,
          File_empty, File_dup}

\* Inputs of the calls
SectionArgs == {"", "default", "defaults", "prod"}
Keys == {"save_password", "foo", "Foo"}
SetValues == {T_true, T_pctpct, T_pct}
OverrideMaps == {<<>>, << <<"foo", T_one>> >>}

Call(op, section, key, value, result) ==
    [op |-> op, section |-> section, key |-> key, value |-> value, result |-> result]

\* has_defaults (property)
has_defaults_of(defs) == Len(defs) > Len(DEFAULTS)

has_defaults == has_defaults_of(_defaults)

\* is_initialised (property)
is_initialised == Len(sections(_sections)) > 0 \/ has_defaults

\* __init__ up to self.file = config_file
Init ==
    /\ default_section = "defaults"
    /\ _defaults = DEFAULTS
    /\ _sections = <<>>
    /\ file \in {NoFile} \cup {[given |-> TRUE, lines |-> f] : f \in Files}
    /\ loaded = FALSE
    /\ view = NoView
    /\ last = Call("__init__", "", "", <<>>, <<>>)
    /\ written = NotWritten
    /\ stdout = {}
    /\ sp_assigned = FALSE
    /\ steps = 0

\* The store a caller holds: the constructor has returned
Constructed == ~file.given \/ loaded

\* load() without the legacy switch
load_default_section_never(ds, defs, secs) == ds

\* The legacy switch of load(): the default_section after read_file
load_default_section(ds, defs, secs) ==
    IF has_section(secs, "default") /\ ~has_defaults_of(defs) THEN "default" ELSE ds

\* __init__'s call of load(): read_file, then the legacy switch.  An exception
\* of read_file leaves __init__, and no store is constructed.
Load ==
    /\ file.given /\ ~loaded /\ last.op = "__init__"
    /\ LET r == read_file(default_section, _defaults, _sections, file.lines) IN
       /\ _defaults' = r.defs
       /\ _sections' = r.secs
       /\ last' = Call("load", "", "", <<>>, r.err)
       /\ IF r.err # <<>>
          THEN UNCHANGED <<default_section, loaded, stdout, sp_assigned>>
          ELSE /\ loaded' = TRUE
               /\ default_section' = load_default_section(default_section, r.defs, r.secs)
               /\ stdout' = IF default_section' # default_section
                            THEN stdout \cup {"deprecated"} ELSE stdout
               /\ sp_assigned' = \E i \in 1..Len(file.lines) :
                                     /\ file.lines[i].kind = "opt"
                                     /\ optionxform(file.lines[i].name) = "save_password"
    /\ UNCHANGED <<file, view, written, steps>>

\* save(): write(self.file) and the confirmation line
Save ==
    /\ Constructed /\ steps < MaxSteps
    /\ written' = [done |-> TRUE, lines |-> write(default_section, _defaults, _sections)]
    /\ stdout' = stdout \cup {"written"}
    /\ last' = Call("save", "", "", <<>>, <<>>)
    /\ steps' = steps + 1
    /\ UNCHANGED <<default_section, _defaults, _sections, file, loaded, view, sp_assigned>>

\* ConfigParser.add_section: the sections after it, or the exception
add_section(ds, secs, section) ==
    IF section = ds THEN [err |-> ValueError, secs |-> secs]
    ELSE IF has_section(secs, section) THEN [err |-> DuplicateSectionError, secs |-> secs]
    ELSE [err |-> <<>>, secs |-> Append(secs, [name |-> section, opts |-> <<>>])]

\* section() that asks has_section nothing before add_section
section_unchecked(ds, secs, section_name) ==
    LET name == IF section_name = "" THEN ds ELSE section_name IN
    IF name # ds THEN add_section(ds, secs, name)
    ELSE [err |-> <<>>, secs |-> secs]

\* section(section_name): the sections after the call, or the exception of
\* add_section
section(ds, secs, section_name) ==
    LET name == IF section_name = "" THEN ds ELSE section_name IN
    IF name # ds /\ ~has_section(secs, name) THEN add_section(ds, secs, name)
    ELSE [err |-> <<>>, secs |-> secs]

\* section(section_name), the caller keeping the Section it returns
SectionCall ==
    /\ Constructed /\ steps < MaxSteps
    /\ \E section_name \in SectionArgs :
        LET name == IF section_name = "" THEN default_section ELSE section_name
            r == section(default_section, _sections, section_name)
        IN  /\ _sections' = r.secs
            /\ view' = IF r.err = <<>>
                       THEN [bound |-> TRUE, section_name |-> name, _overrides |-> <<>>]
                       ELSE view
            /\ last' = Call("section", name, "", <<>>, r.err)
    /\ steps' = steps + 1
    /\ UNCHANGED <<default_section, _defaults, file, loaded, written, stdout, sp_assigned>>

\* has_defaults, read by the caller
HasDefaults ==
    /\ Constructed
    /\ last' = Call("has_defaults", "", "", <<>>, IF has_defaults THEN PyTrue ELSE PyFalse)
    /\ UNCHANGED <<default_section, _defaults, _sections, file, loaded, view, written,
                   stdout, sp_assigned, steps>>

\* is_initialised, read by the caller
IsInitialised ==
    /\ Constructed
    /\ last' = Call("is_initialised", "", "", <<>>, IF is_initialised THEN PyTrue ELSE PyFalse)
    /\ UNCHANGED <<default_section, _defaults, _sections, file, loaded, view, written,
                   stdout, sp_assigned, steps>>

-----------------------------------------------------------------------------
\* Section

\* Section.set_overrides
SetOverrides ==
    /\ view.bound /\ steps < MaxSteps
    /\ \E overrides \in OverrideMaps :
        /\ view' = [view EXCEPT !._overrides = overrides]
    /\ last' = Call("set_overrides", view.section_name, "", <<>>, <<>>)
    /\ steps' = steps + 1
    /\ UNCHANGED <<default_section, _defaults, _sections, file, loaded, written, stdout,
                   sp_assigned>>

\* Section.__setitem__: what config.set does to the store
setitem(ds, defs, secs, section_name, key, value) ==
    cp_set(ds, defs, secs, section_name, key, value)

SetItem ==
    /\ view.bound /\ steps < MaxSteps
    /\ \E key \in Keys, value \in SetValues :
        LET r == setitem(default_section, _defaults, _sections, view.section_name, key, value) IN
        /\ _defaults' = r.defs
        /\ _sections' = r.secs
        /\ last' = Call("set", view.section_name, key, value, r.err)
        /\ sp_assigned' = (sp_assigned \/ (r.err = <<>> /\ optionxform(key) = "save_password"))
    /\ steps' = steps + 1
    /\ UNCHANGED <<default_section, file, loaded, view, written, stdout>>

\* Section.__getitem__
getitem(v, ds, defs, secs, item) ==
    IF DictHas(v._overrides, item) THEN DictGet(v._overrides, item)
    ELSE cp_get(ds, defs, secs, v.section_name, item)

GetItem ==
    /\ view.bound
    /\ \E item \in Keys :
        last' = Call("get", view.section_name, item, <<>>,
                     getitem(view, default_section, _defaults, _sections, item))
    /\ UNCHANGED <<default_section, _defaults, _sections, file, loaded, view, written,
                   stdout, sp_assigned, steps>>

\* Section.__contains__
contains(v, ds, defs, secs, item) == has_option(ds, defs, secs, v.section_name, item)

Contains ==
    /\ view.bound
    /\ \E item \in Keys :
        last' = Call("contains", view.section_name, item, <<>>,
                     IF contains(view, default_section, _defaults, _sections, item)
                     THEN PyTrue ELSE PyFalse)
    /\ UNCHANGED <<default_section, _defaults, _sections, file, loaded, view, written,
                   stdout, sp_assigned, steps>>

\* Section.can_save_password (property)
can_save_password(v, ds, defs, secs) == getboolean(ds, defs, secs, v.section_name, "save_password")

CanSavePassword ==
    /\ view.bound
    /\ last' = Call("can_save_password", view.section_name, "", <<>>,
                    can_save_password(view, default_section, _defaults, _sections))
    /\ UNCHANGED <<default_section, _defaults, _sections, file, loaded, view, written,
                   stdout, sp_assigned, steps>>

Next ==
    \/ Load
    \/ Save
    \/ HasDefaults
    \/ IsInitialised
    \/ SectionCall
    \/ SetOverrides
    \/ SetItem
    \/ GetItem
    \/ Contains
    \/ CanSavePassword

Spec == Init /\ [][Next]_vars

-----------------------------------------------------------------------------
\* Claims

\* A Section of the default section with no overrides, as section(None) returns it
DefaultView == [bound |-> TRUE, section_name |-> default_section, _overrides |-> <<>>]

Migrated == loaded /\ default_section = "default"

SetDone == last.op = "set" /\ last.result = <<>>

\* The option lines of the file the store was constructed from
OptLines == {i \in 1..Len(file.lines) : file.lines[i].kind = "opt"}

\* The file holds a [default] section and no other section
OnlyLegacyFile ==
    /\ file.given
    /\ \E i \in 1..Len(file.lines) : file.lines[i].kind = "sec"
    /\ \A i \in 1..Len(file.lines) : file.lines[i].kind = "sec" => file.lines[i].name = "default"

HasPct(t) == \E i \in 1..Len(t) : t[i] = "%"

\* C1: right after Section(default_section_name)[x] = v, reading x through a
\* Section of the default section with no overrides returns v.
C1_ReadAfterWrite ==
    (SetDone /\ last.section = default_section)
        => getitem(DefaultView, default_section, _defaults, _sections, last.key) = last.value

\* C2 as stated: after loading a file with only a [default] section, the
\* default section is "default", the notice was printed, and Section(None)[k]
\* returns v for every loaded pair k = v.
C2_LegacyMigration_AllValues ==
    (last.op = "load" /\ last.result = <<>> /\ OnlyLegacyFile) =>
        /\ default_section = "default"
        /\ "deprecated" \in stdout
        /\ \A i \in OptLines :
               getitem(DefaultView, default_section, _defaults, _sections, file.lines[i].name)
                   = Strip(file.lines[i].text)

\* C2 amended: after loading a file with only a [default] section, the default
\* section is "default", the notice was printed, and Section(None)[k] returns v
\* for every loaded pair k = v whose value holds no '%'.
C2_LegacyMigration ==
    (last.op = "load" /\ last.result = <<>> /\ OnlyLegacyFile) =>
        /\ default_section = "default"
        /\ "deprecated" \in stdout
        /\ \A i \in OptLines :
               ~HasPct(file.lines[i].text) =>
                   getitem(DefaultView, default_section, _defaults, _sections, file.lines[i].name)
                       = Strip(file.lines[i].text)

C2_Witness ==
    /\ last.op = "load" /\ last.result = <<>> /\ OnlyLegacyFile
    /\ file.lines = File_legacy
    /\ getitem(DefaultView, default_section, _defaults, _sections, "foo") = T_bar

\* Load of the saved lines into a fresh store
LoadFresh(lines) ==
    LET r == read_file("defaults", DEFAULTS, <<>>, lines) IN
    [err |-> r.err, defs |-> r.defs, secs |-> r.secs,
     ds |-> load_default_section("defaults", r.defs, r.secs)]

\* C3: after Save, Load of what was written into a fresh store succeeds and
\* gives the same default section name, sections, keys, values and order.
C3_SaveLoadRoundTrip ==
    last.op = "save" =>
        LET r == LoadFresh(written.lines) IN
        /\ r.err = <<>>
        /\ r.ds = default_section
        /\ r.defs = _defaults
        /\ r.secs = _sections

\* C4: a key of the override map reads as its override before and after a Set;
\* Set leaves the override map alone and writes the value into the section the
\* Section is bound to.
C4_OverrideShadowing ==
    [][last'.op = "set" =>
        /\ view' = view
        /\ \A a \in Keys : DictHas(view._overrides, a) =>
               /\ getitem(view, default_section, _defaults, _sections, a)
                      = DictGet(view._overrides, a)
               /\ getitem(view', default_section', _defaults', _sections', a)
                      = DictGet(view._overrides, a)
        /\ last'.result = <<>> =>
               get_raw(default_section', _defaults', _sections', view.section_name, last'.key)
                   = last'.value]_vars

\* C5: Contains(key) is true iff the key is one of the keys of the section the
\* Section is bound to, whatever the override map holds.
C5_ContainsIffInSection ==
    view.bound => \A item \in Keys :
        /\ contains(view, default_section, _defaults, _sections, item)
               <=> optionxform(item) \in options(default_section, _defaults, _sections,
                                                 view.section_name)
        /\ \A ov \in OverrideMaps :
               contains([view EXCEPT !._overrides = ov], default_section, _defaults,
                        _sections, item)
                   = contains(view, default_section, _defaults, _sections, item)

Count(secs, n) == Cardinality({i \in 1..Len(secs) : secs[i].name = n})

\* C6: Section(name) raises nothing and returns a Section of the name; a
\* missing section is created once and empty, at the end; a section that
\* exists is not added again, and no section loses or changes its keys.
C6_SectionCreatesOnce ==
    [][last'.op = "section" =>
        LET n == last'.section IN
        /\ last'.result = <<>>
        /\ view'.bound /\ view'.section_name = n
        /\ n # default_section => Count(_sections', n) = 1
        /\ \A m \in SectionNames(_sections) :
               /\ Count(_sections', m) = Count(_sections, m)
               /\ SectionOpts(_sections', m) = SectionOpts(_sections, m)
        /\ Len(_sections') = Len(_sections) + (IF n = default_section \/ has_section(_sections, n)
                                                THEN 0 ELSE 1)
        /\ (n # default_section /\ ~has_section(_sections, n)) => SectionOpts(_sections', n) = <<>>
        /\ _defaults' = _defaults]_vars

\* Section("prod") called again on a section it created and Set has filled
C6_Witness ==
    /\ ~file.given
    /\ last.op = "section" /\ last.section = "prod"
    /\ steps >= 3
    /\ SectionOpts(_sections, "prod") # <<>>

\* C7: can_save_password is false for every section while save_password was
\* never assigned, and true right after Section(s)["save_password"] = "true".
C7_CanSavePassword ==
    /\ (Constructed /\ ~sp_assigned) =>
           \A s \in SectionNames(_sections) \cup {default_section} :
               getboolean(default_section, _defaults, _sections, s, "save_password") = PyFalse
    /\ (SetDone /\ optionxform(last.key) = "save_password" /\ last.value = T_true) =>
           can_save_password(view, default_section, _defaults, _sections) = PyTrue

\* C8: is_initialised iff some section has another name than the default
\* section's, or has_defaults.
C8_IsInitialised ==
    Constructed =>
        (is_initialised <=>
            \/ \E n \in SectionNames(_sections) : n # default_section
            \/ has_defaults)

\* C9: has_defaults iff the section default_section_name designates holds more
\* keys than the built-in defaults.
C9_HasDefaults ==
    Constructed =>
        (has_defaults <=>
            Cardinality(options(default_section, _defaults, _sections, default_section))
                > Len(DEFAULTS))

\* C10: after the legacy migration a Set through Section(None) is stored in
\* the "default" section read from the file, and what was seeded under
\* "defaults" is left unchanged.
C10_SetAfterMigration ==
    [][(Migrated /\ last'.op = "set" /\ last'.result = <<>>
            /\ view.section_name = default_section) =>
        /\ _defaults' = _defaults
        /\ DictHas(SectionOpts(_sections', "default"), optionxform(last'.key))
        /\ DictGet(SectionOpts(_sections', "default"), optionxform(last'.key)) = last'.value]_vars

====
